---------------------------- MODULE Spec2Model ----------------------------
(***************************************************************************)
(* Model of django_exportable_admin: the streaming delimited-text export   *)
(* of an admin changelist (admin.py, ExportableAdmin.export_changelist_view)*)
(* and the incremental writer it drives (utils.py, Echo and UnicodeWriter). *)
(*                                                                         *)
(* Text is a sequence of Unicode code points, encoded output a sequence of *)
(* byte values.  A value of a cell is a record [t, n, s]: t is the Python   *)
(* type ("none", "int", "str", or "dne" for a lookup that raises           *)
(* ObjectDoesNotExist), n the integer and s the text.                      *)
(***************************************************************************)
EXTENDS Integers, Sequences, FiniteSets, TLC

\* ------------------------------------------------------------------ bounds

\* The longest row source (queryset or rows iterable) of one export.
MaxRows == 3

\* The number of export requests in flight in the concurrent specification.
NumRequests == 2

\* --------------------------------------------------------- program constants

\* csv.excel: quotechar '"', doublequote, QUOTE_MINIMAL, lineterminator '\r\n'.
quotechar == 34

lineterminator == <<13, 10>>

\* io.StringIO pads a write past the end of the buffer with NUL characters.
NUL == 0

\* codecs.BOM_UTF8, which the utf-8-sig incremental encoder sends first.
BOM_UTF8 == <<239, 187, 191>>

\* ExportableAdmin.export_formats: (u'CSV', u','), (u'Tab Delimited', u'\t').
export_formats == {44, 9}

\* ------------------------------------------------------------ text helpers

RECURSIVE Flatten(_)
\* The concatenation of a sequence of sequences.
Flatten(ss) == IF ss = <<>> THEN <<>> ELSE Head(ss) \o Flatten(Tail(ss))

\* n copies of x.
Repeat(x, n) == [i \in 1..n |-> x]

Contains(s, x) == \E i \in 1..Len(s) : s[i] = x

IsPrefix(p, s) == Len(p) <= Len(s) /\ SubSeq(s, 1, Len(p)) = p

RECURSIVE Digits(_)
\* The decimal digits of a natural number, as code points.
Digits(n) == IF n < 10 THEN <<48 + n>> ELSE Digits(n \div 10) \o <<48 + (n % 10)>>

\* django.utils.encoding.smart_text -> force_text: text passes through, every
\* other object becomes six.text_type(s); six.text_type(None) is 'None'.
smart_text(v) ==
  CASE v.t = "str" -> v.s
    [] v.t = "int" -> IF v.n < 0 THEN <<45>> \o Digits(0 - v.n) ELSE Digits(v.n)
    [] OTHER       -> <<78, 111, 110, 101>>

IsTagStart(c) == c = 47 \/ (c >= 65 /\ c <= 90) \/ (c >= 97 /\ c <= 122)

RECURSIVE strip_once(_)
\* One pass of django.utils.html.strip_tags over simple inline markup: a '<'
\* that opens a tag ('<' then a letter or '/') is dropped with everything up to
\* its closing '>'; any other character is kept.
strip_once(s) ==
  IF s = <<>> THEN <<>>
  ELSE IF Head(s) = 60 /\ Len(s) >= 2 /\ IsTagStart(s[2])
            /\ \E j \in 2..Len(s) : s[j] = 62
       THEN LET j == CHOOSE k \in 2..Len(s) :
                       s[k] = 62 /\ \A m \in 2..(k - 1) : s[m] # 62
            IN  strip_once(SubSeq(s, j + 1, Len(s)))
       ELSE <<Head(s)>> \o strip_once(Tail(s))

RECURSIVE strip_tags(_)
\* strip_tags: strip while the value still holds '<' and '>' and gets shorter.
strip_tags(s) ==
  IF Contains(s, 60) /\ Contains(s, 62)
  THEN LET t == strip_once(s)
       IN  IF Len(t) >= Len(s) THEN s ELSE strip_tags(t)
  ELSE s

\* ------------------------------------------------------------- csv writer

\* QUOTE_MINIMAL: a field is quoted when it holds the delimiter, the quote
\* character or a character of the line terminator.
NeedsQuote(field, delimiter) ==
  \E i \in 1..Len(field) :
     field[i] = delimiter \/ field[i] = quotechar \/ Contains(lineterminator, field[i])

\* doublequote: every quote character of a quoted field is written twice.
DoubleQuotes(field) ==
  Flatten([i \in 1..Len(field) |->
             IF field[i] = quotechar THEN <<quotechar, quotechar>> ELSE <<field[i]>>])

\* One field as the csv writer writes it; a lone empty field is written as "".
WriteField(field, delimiter, alone) ==
  IF NeedsQuote(field, delimiter) \/ (alone /\ field = <<>>)
  THEN <<quotechar>> \o DoubleQuotes(field) \o <<quotechar>>
  ELSE field

RECURSIVE JoinFields(_, _)
JoinFields(fs, delimiter) ==
  IF fs = <<>> THEN <<>>
  ELSE IF Len(fs) = 1 THEN Head(fs)
  ELSE Head(fs) \o <<delimiter>> \o JoinFields(Tail(fs), delimiter)

\* csv.writer.writerow: the fields joined by the delimiter, then '\r\n'.
CsvLine(fields, delimiter) ==
  JoinFields([i \in 1..Len(fields) |->
                WriteField(fields[i], delimiter, Len(fields) = 1)], delimiter)
    \o lineterminator

\* csv.DictWriter._dict_to_list: for each fieldname, in order, the row's value
\* under that key, or restval '' when the row has no such key.
DictToList(fieldnames, rowdict) ==
  [i \in 1..Len(fieldnames) |->
     IF fieldnames[i] \in DOMAIN rowdict THEN rowdict[fieldnames[i]] ELSE <<>>]

\* csv.DictWriter.writeheader: writerow(dict(zip(fieldnames, fieldnames))).
HeaderLine(fieldnames, delimiter) ==
  CsvLine(DictToList(fieldnames, [k \in {fieldnames[i] : i \in 1..Len(fieldnames)} |-> k]),
          delimiter)

\* --------------------------------------------------------------- StringIO

\* io.StringIO.write at position pos: a position past the end is first padded
\* with NUL characters, then the text overwrites or extends the buffer.
StringIO_write(q, s) ==
  LET padded == IF q.pos > Len(q.buf)
                THEN q.buf \o Repeat(NUL, q.pos - Len(q.buf)) ELSE q.buf
      before == SubSeq(padded, 1, q.pos)
      after  == SubSeq(padded, q.pos + Len(s) + 1, Len(padded))
  IN  [buf |-> before \o s \o after, pos |-> q.pos + Len(s)]

\* io.StringIO.truncate(0): the buffer is cut to size 0; the position stays.
StringIO_truncate0(q) == [buf |-> <<>>, pos |-> q.pos]

\* ---------------------------------------------------------------- encoder

IsSurrogate(cp) == cp >= 55296 /\ cp <= 57343

\* An encoder that lets every code point through (errors='surrogatepass').
CanEncodeCharLax(encoding, cp) == TRUE

\* Whether the strict codec can encode the code point.
CanEncodeChar(encoding, cp) ==
  IF encoding = "ascii" THEN cp < 128 ELSE ~IsSurrogate(cp)

\* The UTF-8 bytes of a code point of the Basic Multilingual Plane.
Utf8Char(cp) ==
  IF cp < 128 THEN <<cp>>
  ELSE IF cp < 2048 THEN <<192 + (cp \div 64), 128 + (cp % 64)>>
  ELSE <<224 + (cp \div 4096), 128 + ((cp \div 64) % 64), 128 + (cp % 64)>>

CanEncode(encoding, data) == \A i \in 1..Len(data) : CanEncodeChar(encoding, data[i])

\* IncrementalEncoder.encode(data) of a fresh or used encoder enc =
\* [encoding, first]: utf-8-sig sends the byte order mark before its first
\* output; ascii and utf-8 keep no state.
EncoderEncode(enc, data) ==
  (IF enc.encoding = "utf-8-sig" /\ enc.first THEN BOM_UTF8 ELSE <<>>)
    \o Flatten([i \in 1..Len(data) |-> Utf8Char(data[i])])

\* ------------------------------------------------------------------- sink

\* A write that answers like a file object: the number of bytes written.
Echo_write_count(value) == <<Len(value)>>

\* Echo.write: the value is returned to the caller and stored nowhere.
Echo_write(value) == value

\* ----------------------------------------------------------------- values

StrVal(s) == [t |-> "str", n |-> 0, s |-> s]

IntVal(n) == [t |-> "int", n |-> n, s |-> <<>>]

None == [t |-> "none", n |-> 0, s |-> <<>>]

\* The outcome of a lookup_field call that raises ObjectDoesNotExist.
DoesNotExist == [t |-> "dne", n |-> 0, s |-> <<>>]

\* ------------------------------------------------------ export_changelist_view

RECURSIVE Columns(_)
\* The columns the view walks: list_display without 'action_checkbox'.
Columns(list_display) ==
  IF list_display = <<>> THEN <<>>
  ELSE IF Head(list_display) = "action_checkbox" THEN Columns(Tail(list_display))
  ELSE <<Head(list_display)>> \o Columns(Tail(list_display))

\* OrderedDict.__setitem__ on a sequence of <<key, value>> pairs: a new key is
\* appended, a known key keeps its place and takes the new value.
OrderedSet(od, key, value) ==
  IF \E i \in 1..Len(od) : od[i][1] = key
  THEN [i \in 1..Len(od) |-> IF od[i][1] = key THEN <<key, value>> ELSE od[i]]
  ELSE Append(od, <<key, value>>)

OrderedGet(od, key) == od[CHOOSE i \in 1..Len(od) : od[i][1] = key][2]

\* OrderedDict.values(): the values in insertion order.
OrderedValues(od) == [i \in 1..Len(od) |-> od[i][2]]

RECURSIVE ResHeadersFrom(_, _, _)
ResHeadersFrom(cols, label, od) ==
  IF cols = <<>> THEN od
  ELSE ResHeadersFrom(Tail(cols), label, OrderedSet(od, Head(cols), label[Head(cols)]))

\* res_headers: field name -> label_for_field(field name), in display order.
ResHeaders(list_display, label) == ResHeadersFrom(Columns(list_display), label, <<>>)

\* The value the view takes for one column of one record: None when the lookup
\* raises ObjectDoesNotExist, a string with its tags stripped, else as it is.
ResolvedValue(field_name, result) ==
  LET value == IF result[field_name].t = "dne" THEN None ELSE result[field_name]
  IN  IF value.t = "str" THEN StrVal(strip_tags(value.s)) ELSE value

\* dict.__setitem__ on a function from keys to values.
DictSet(row, key, value) ==
  [k \in (DOMAIN row) \cup {key} |-> IF k = key THEN value ELSE row[k]]

RECURSIVE BuildRowFrom(_, _, _, _)
BuildRowFrom(cols, headers, result, row) ==
  IF cols = <<>> THEN row
  ELSE BuildRowFrom(Tail(cols), headers, result,
                    DictSet(row, OrderedGet(headers, Head(cols)),
                            ResolvedValue(Head(cols), result)))

\* The row mapping of one record: row[res_headers[field_name]] = value for
\* every column, in display order.
BuildRow(list_display, headers, result) ==
  BuildRowFrom(Columns(list_display), headers, result, <<>>)

\* ------------------------------------------------------------ UnicodeWriter

\* One buffer shared by every writer (a module-level or class-level queue).
QueueShared(r) == 1

\* self.queue is an attribute of the instance: each writer has its own buffer.
QueueOf(r) == r

\* self.encoder is an attribute of the instance as well.
EncoderOf(r) == r

StringIO_new == [buf |-> <<>>, pos |-> 0]

StringIO_getvalue(q) == q.buf

\* UnicodeWriter.__init__: a fresh queue, a DictWriter on it, the stream, a
\* fresh incremental encoder, and writeheader() into the queue.
UnicodeWriter_init(fieldnames, delimiter, encoding) ==
  [writer  |-> [made |-> TRUE, fieldnames |-> fieldnames, delimiter |-> delimiter],
   queue   |-> StringIO_write(StringIO_new, HeaderLine(fieldnames, delimiter)),
   encoder |-> [encoding |-> encoding, first |-> TRUE]]

\* The encoder after encode() was called: utf-8-sig clears its first flag
\* before it encodes, the other codecs keep no state.
EncoderNext(enc) ==
  IF enc.encoding = "utf-8-sig" THEN [enc EXCEPT !.first = FALSE] ELSE enc

\* UnicodeWriter.writerow(row) on a writer wr with queue q and encoder enc.
\* The result names what the call raised ("" when it returned), the queue and
\* the encoder it leaves, whether stream.write was called and with what, the
\* value returned, the queue's text at entry, the fields handed to csv and the
\* text fetched from the queue.
UnicodeWriter_writerow(wr, q, enc, row) ==
  LET texts  == [k \in DOMAIN row |-> smart_text(row[k])]
      stray  == \E k \in DOMAIN row : ~Contains(wr.fieldnames, k)
      fields == DictToList(wr.fieldnames, texts)
      q1     == StringIO_write(q, CsvLine(fields, wr.delimiter))
      data   == StringIO_getvalue(q1)
      bytes  == EncoderEncode(enc, data)
      base   == [raised |-> "", queue |-> q, encoder |-> enc, wrote |-> FALSE,
                 written |-> <<>>, returned |-> <<>>,
                 entry |-> StringIO_getvalue(q), fields |-> fields, data |-> <<>>]
  IN  IF stray THEN [base EXCEPT !.raised = "ValueError"]
      ELSE IF ~CanEncode(enc.encoding, data)
      THEN [base EXCEPT !.raised = "UnicodeEncodeError", !.queue = q1,
                        !.encoder = EncoderNext(enc), !.data = data]
      ELSE [base EXCEPT !.queue = StringIO_truncate0(q1), !.encoder = EncoderNext(enc),
                        !.wrote = TRUE, !.written = bytes, !.data = data,
                        !.returned = Echo_write(bytes)]

\* ----------------------------------------------------------------- inputs

\* The sequences over S of length at most n.
SeqsUpTo(S, n) == UNION {[1..k -> S] : k \in 0..n}

\* Labels label_for_field may give: 'Name', 'Amount'.
LabelName == <<78, 97, 109, 101>>

LabelAmount == <<65, 109, 111, 117, 110, 116>>

\* A key no column of the header has: 'X'.
LabelOther == <<88>>

FieldNames == {"name", "amount"}

\* cl.list_display of the changelist.
ListDisplays ==
  { <<"action_checkbox", "name", "amount">>, <<"amount">> }

\* label_for_field: distinct labels, or one label shared by both columns.
LabelMaps ==
  { [f \in FieldNames |-> IF f = "name" THEN LabelName ELSE LabelAmount],
    [f \in FieldNames |-> LabelName] }

\* Records of the queryset, as lookup_field resolves their columns:
\* 'A'/5, 'B,"C'/'', '<b>x</b>'/None, a missing related record/'e-acute',
\* a lone surrogate/10.
Results ==
  { [f \in FieldNames |-> IF f = "name" THEN StrVal(<<65>>) ELSE IntVal(5)],
    [f \in FieldNames |-> IF f = "name" THEN StrVal(<<66, 44, 34, 67>>) ELSE StrVal(<<>>)],
    [f \in FieldNames |-> IF f = "name" THEN StrVal(<<60, 98, 62, 120, 60, 47, 98, 62>>)
                                         ELSE None],
    [f \in FieldNames |-> IF f = "name" THEN DoesNotExist ELSE StrVal(<<233>>)],
    [f \in FieldNames |-> IF f = "name" THEN StrVal(<<55296>>) ELSE IntVal(10)] }

\* Row mappings handed to writerows by a direct caller: a full row, a row
\* without the Amount key, a row with a None value, a row with a stray key.
RowDicts ==
  { (LabelName :> StrVal(<<65>>)) @@ (LabelAmount :> IntVal(5)),
    (LabelName :> StrVal(<<233>>)),
    (LabelName :> None) @@ (LabelAmount :> StrVal(<<66, 44, 67>>)),
    (LabelName :> StrVal(<<65>>)) @@ (LabelOther :> IntVal(1)) }

Encodings == {"utf-8", "ascii", "utf-8-sig"}

\* An export request through the admin view (the view passes no encoding).
ViewInput(delimiter, list_display, label, queryset) ==
  [mode |-> "view", delimiter |-> delimiter, encoding |-> "utf-8",
   list_display |-> list_display, label |-> label, queryset |-> queryset,
   fieldnames |-> <<>>, rows |-> <<>>]

\* A direct use: UnicodeWriter(Echo(), fieldnames=..., delimiter=...,
\* encoding=...) and then writerows(rows).
DirectInput(delimiter, encoding, fieldnames, rows) ==
  [mode |-> "direct", delimiter |-> delimiter, encoding |-> encoding,
   list_display |-> <<>>, label |-> <<>>, queryset |-> <<>>,
   fieldnames |-> fieldnames, rows |-> rows]

Inputs ==
  { ViewInput(d, ld, lb, qs) :
      d \in export_formats, ld \in ListDisplays, lb \in LabelMaps,
      qs \in SeqsUpTo(Results, MaxRows) }
  \cup
  { DirectInput(d, e, <<LabelName, LabelAmount>>, rows) :
      d \in export_formats, e \in Encodings, rows \in SeqsUpTo(RowDicts, MaxRows) }

\* ------------------------------------------------------------------ state

VARIABLES
  req,          \* request -> its input (never changes)
  res_headers,  \* request -> the view's res_headers (pairs field name, label)
  writer,       \* request -> its UnicodeWriter: made, fieldnames, delimiter
  queue,        \* the StringIO buffers: buf (text) and pos
  encoder,      \* the incremental encoders: encoding and first
  gen,          \* request -> state of its generator
  cursor,       \* request -> rows taken from the row source so far
  sunk,         \* request -> the chunks passed to stream.write, in order
  delivered,    \* request -> the items the generator yielded, in order
  call          \* request -> what the latest writerow call did

vars == <<req, res_headers, writer, queue, encoder, gen, cursor, sunk, delivered, call>>

Requests == DOMAIN req

NoCall ==
  [n |-> 0, raised |-> "", wrote |-> FALSE, written |-> <<>>, returned |-> <<>>,
   entry |-> <<>>, after |-> <<>>, fields |-> <<>>, data |-> <<>>,
   row |-> <<>>, values |-> <<>>]

InitWith(input) ==
  /\ req = input
  /\ res_headers = [r \in DOMAIN input |-> <<>>]
  /\ writer = [r \in DOMAIN input |-> [made |-> FALSE, fieldnames |-> <<>>, delimiter |-> 0]]
  /\ queue = [r \in DOMAIN input |-> StringIO_new]
  /\ encoder = [r \in DOMAIN input |-> [encoding |-> "", first |-> TRUE]]
  /\ gen = [r \in DOMAIN input |-> "none"]
  /\ cursor = [r \in DOMAIN input |-> 0]
  /\ sunk = [r \in DOMAIN input |-> <<>>]
  /\ delivered = [r \in DOMAIN input |-> <<>>]
  /\ call = [r \in DOMAIN input |-> NoCall]

Init == \E input \in [{1} -> Inputs] : InitWith(input)

\* The writer of request r as it stands.
Cur(r) ==
  [writer |-> writer[r], queue |-> queue[QueueOf(r)], encoder |-> encoder[EncoderOf(r)]]

\* ---------------------------------------------------------------- actions

\* A loop that reads one row ahead of the row it yields.
NextCursorAhead(c) == c + 2

\* The for loop takes one row from the row source per iteration.
NextCursor(c) == c + 1

\* The generator body reaches its yield (or raises) on the next row: one
\* writerow call on the writer state st.
Iterate(r, st, row, values) ==
  LET out == UnicodeWriter_writerow(st.writer, st.queue, st.encoder, row)
  IN  /\ writer' = [writer EXCEPT ![r] = st.writer]
      /\ queue' = [queue EXCEPT ![QueueOf(r)] = out.queue]
      /\ encoder' = [encoder EXCEPT ![EncoderOf(r)] = out.encoder]
      /\ cursor' = [cursor EXCEPT ![r] = NextCursor(@)]
      /\ call' = [call EXCEPT ![r] =
                    [n |-> @.n + 1, raised |-> out.raised, wrote |-> out.wrote,
                     written |-> out.written, returned |-> out.returned,
                     entry |-> out.entry, after |-> StringIO_getvalue(out.queue),
                     fields |-> out.fields, data |-> out.data,
                     row |-> row, values |-> values]]
      /\ sunk' = [sunk EXCEPT ![r] = IF out.wrote THEN Append(@, out.written) ELSE @]
      /\ delivered' = [delivered EXCEPT ![r] =
                         IF out.raised = "" THEN Append(@, out.returned) ELSE @]
      /\ gen' = [gen EXCEPT ![r] = IF out.raised = "" THEN "suspended" ELSE "failed"]
      /\ UNCHANGED <<req, res_headers>>

\* The row source is exhausted: the generator returns.
Return(r, st) ==
  /\ writer' = [writer EXCEPT ![r] = st.writer]
  /\ queue' = [queue EXCEPT ![QueueOf(r)] = st.queue]
  /\ encoder' = [encoder EXCEPT ![EncoderOf(r)] = st.encoder]
  /\ gen' = [gen EXCEPT ![r] = "done"]
  /\ UNCHANGED <<req, res_headers, cursor, sunk, delivered, call>>

\* export_changelist_view: res_headers is built, the generator is created
\* (not started) and handed to StreamingHttpResponse.
ExportChangelistView(r) ==
  /\ req[r].mode = "view"
  /\ gen[r] = "none"
  /\ res_headers' = [res_headers EXCEPT ![r] = ResHeaders(req[r].list_display, req[r].label)]
  /\ gen' = [gen EXCEPT ![r] = "unstarted"]
  /\ UNCHANGED <<req, writer, queue, encoder, cursor, sunk, delivered, call>>

\* The transport asks generate_response() for its next chunk: on the first
\* call the writer is constructed; then the next record is fetched, its columns
\* are looked up, and csv.writerow(row) is yielded.
NextGenerateResponse(r) ==
  /\ req[r].mode = "view"
  /\ gen[r] \in {"unstarted", "suspended"}
  /\ LET st == IF gen[r] = "unstarted"
               THEN UnicodeWriter_init(OrderedValues(res_headers[r]),
                                       req[r].delimiter, req[r].encoding)
               ELSE Cur(r)
         cols == Columns(req[r].list_display)
     IN  IF cursor[r] = Len(req[r].queryset)
         THEN Return(r, st)
         ELSE LET result == req[r].queryset[cursor[r] + 1]
              IN  Iterate(r, st, BuildRow(req[r].list_display, res_headers[r], result),
                          [i \in 1..Len(cols) |-> ResolvedValue(cols[i], result)])

\* A direct caller constructs UnicodeWriter(Echo(), ...) and calls
\* writerows(rows), which creates the generator without running it.
UnicodeWriterNew(r) ==
  /\ req[r].mode = "direct"
  /\ gen[r] = "none"
  /\ LET st == UnicodeWriter_init(req[r].fieldnames, req[r].delimiter, req[r].encoding)
     IN  /\ writer' = [writer EXCEPT ![r] = st.writer]
         /\ queue' = [queue EXCEPT ![QueueOf(r)] = st.queue]
         /\ encoder' = [encoder EXCEPT ![EncoderOf(r)] = st.encoder]
  /\ gen' = [gen EXCEPT ![r] = "unstarted"]
  /\ UNCHANGED <<req, res_headers, cursor, sunk, delivered, call>>

\* The consumer asks writerows(rows) for its next item.
NextWriterows(r) ==
  /\ req[r].mode = "direct"
  /\ gen[r] \in {"unstarted", "suspended"}
  /\ IF cursor[r] = Len(req[r].rows)
     THEN Return(r, Cur(r))
     ELSE Iterate(r, Cur(r), req[r].rows[cursor[r] + 1], <<>>)

\* The consumer stops pulling (the client went away): the generator is closed.
ConsumerStop(r) ==
  /\ gen[r] \in {"unstarted", "suspended"}
  /\ gen' = [gen EXCEPT ![r] = "closed"]
  /\ UNCHANGED <<req, res_headers, writer, queue, encoder, cursor, sunk, delivered, call>>

Next ==
  \/ \E r \in Requests : ExportChangelistView(r)
  \/ \E r \in Requests : NextGenerateResponse(r)
  \/ \E r \in Requests : UnicodeWriterNew(r)
  \/ \E r \in Requests : NextWriterows(r)
  \/ \E r \in Requests : ConsumerStop(r)

Spec == Init /\ [][Next]_vars

\* -------------------------------------------------- concurrent requests

\* The requests of the concurrent specification: two exports through the view
\* and one direct use of the writer.
ConcInputs ==
  { ViewInput(44, <<"action_checkbox", "name", "amount">>,
              [f \in FieldNames |-> IF f = "name" THEN LabelName ELSE LabelAmount],
              << [f \in FieldNames |-> IF f = "name" THEN StrVal(<<65>>) ELSE IntVal(5)],
                 [f \in FieldNames |-> IF f = "name" THEN StrVal(<<66, 44, 34, 67>>)
                                                      ELSE StrVal(<<>>)] >>),
    ViewInput(9, <<"amount">>, [f \in FieldNames |-> LabelName],
              << [f \in FieldNames |-> IF f = "name" THEN DoesNotExist
                                                      ELSE StrVal(<<233>>)] >>),
    DirectInput(44, "utf-8-sig", <<LabelName, LabelAmount>>,
                << (LabelName :> StrVal(<<65>>)) @@ (LabelAmount :> IntVal(5)),
                   (LabelName :> None) @@ (LabelAmount :> StrVal(<<66, 44, 67>>)) >>) }

InitConc == \E input \in [1..NumRequests -> ConcInputs] : InitWith(input)

\* Several export requests in flight, their chunk pulls interleaved.
SpecConc == InitConc /\ [][Next]_vars

\* ------------------------------------------------- what a request is given

\* The fieldnames the writer of a request is constructed with.
FieldnamesOfInput(input) ==
  IF input.mode = "view"
  THEN OrderedValues(ResHeaders(input.list_display, input.label))
  ELSE input.fieldnames

\* The row mappings a request feeds to writerow, in order.
RowsOfInput(input) ==
  IF input.mode = "view"
  THEN [k \in 1..Len(input.queryset) |->
          BuildRow(input.list_display, ResHeaders(input.list_display, input.label),
                   input.queryset[k])]
  ELSE input.rows

\* The length of the row source of a request.
SourceLen(r) == Len(RowsOfInput(req[r]))

RECURSIVE ChunksFrom(_, _, _, _)
\* The items writerow yields for the rows, one after the other, up to the
\* first row on which it raises.
ChunksFrom(wr, q, enc, rows) ==
  IF rows = <<>> THEN <<>>
  ELSE LET out == UnicodeWriter_writerow(wr, q, enc, Head(rows))
       IN  IF out.raised # "" THEN <<>>
           ELSE <<out.returned>> \o ChunksFrom(wr, out.queue, out.encoder, Tail(rows))

\* The chunk sequence a request receives when it runs alone.
ChunksAlone(input) ==
  LET st == UnicodeWriter_init(FieldnamesOfInput(input), input.delimiter, input.encoding)
  IN  ChunksFrom(st.writer, st.queue, st.encoder, RowsOfInput(input))

\* The header line of a request, encoded by a fresh encoder.
EncodedHeader(r) ==
  EncoderEncode([encoding |-> req[r].encoding, first |-> TRUE],
                HeaderLine(writer[r].fieldnames, writer[r].delimiter))

\* The line of a row mapping: its values as text, one field per fieldname.
RowLine(r, row) ==
  CsvLine(DictToList(writer[r].fieldnames, [k \in DOMAIN row |-> smart_text(row[k])]),
          writer[r].delimiter)

\* The document of a request: the header line, then one line per row.
Document(r) ==
  LET rows == RowsOfInput(req[r])
  IN  EncoderEncode([encoding |-> req[r].encoding, first |-> TRUE],
                    HeaderLine(writer[r].fieldnames, writer[r].delimiter)
                      \o Flatten([k \in 1..Len(rows) |-> RowLine(r, rows[k])]))

\* A code point the strict codec of the encoding cannot represent.
Unrepresentable(encoding, cp) ==
  (cp >= 55296 /\ cp <= 57343) \/ (encoding = "ascii" /\ cp >= 128)

\* ----------------------------------------------------------------- claims

\* C1: after __init__ returns and before any writerow call the sink has
\* received exactly one chunk, the encoded header line, and the first writerow
\* forwards only its own row's line.
C1_HeaderForwardedAtConstruction ==
  \A r \in Requests :
     /\ (writer[r].made /\ call[r].n = 0) => sunk[r] = <<EncodedHeader(r)>>
     /\ (call[r].n = 1 /\ call[r].wrote) =>
           call[r].written = EncoderEncode([encoding |-> req[r].encoding, first |-> FALSE],
                                           RowLine(r, call[r].row))

\* C2: when the row source is exhausted, the concatenation of the chunks
\* forwarded to the sink is the header line followed by one line per row, in
\* order, and nothing else (also for no rows at all).
C2_DocumentIsHeaderThenRows ==
  \A r \in Requests : gen[r] = "done" => Flatten(sunk[r]) = Document(r)

\* C3: a value that is None (a lookup that raised ObjectDoesNotExist included)
\* or missing from the row is written as an empty field.
C3_NoneIsEmptyField ==
  \A r \in Requests :
     call[r].n > 0 =>
       \A i \in 1..Len(call[r].fields) :
          LET key == writer[r].fieldnames[i]
          IN  (key \notin DOMAIN call[r].row \/ call[r].row[key].t = "none")
                => call[r].fields[i] = <<>>

\* C4: the text buffered for (and drained by) a writerow call is at most one
\* header line plus that row's line, however many rows were written before.
C4_BufferedAtMostHeaderAndRow ==
  \A r \in Requests :
     writer[r].made =>
       LET limit == Len(HeaderLine(writer[r].fieldnames, writer[r].delimiter))
                      + (IF call[r].n > 0 THEN Len(RowLine(r, call[r].row)) ELSE 0)
       IN  /\ Len(queue[QueueOf(r)].buf) <= limit
           /\ Len(call[r].data) <= limit
           /\ call[r].wrote => Len(call[r].written) <= Len(BOM_UTF8) + 3 * limit

\* C5: one item per row, in order, produced on demand: between pulls exactly
\* as many rows were taken from the row source as items were handed over, the
\* k-th item is writerow of the k-th row, and once the consumer has stopped no
\* further row is read and nothing more is produced.
C5_LazyInOrder ==
  /\ [](\A r \in Requests :
          /\ gen[r] \in {"none", "unstarted", "suspended", "done", "closed"}
               => cursor[r] = Len(delivered[r])
          /\ gen[r] = "failed" => cursor[r] = Len(delivered[r]) + 1
          /\ gen[r] = "done" => Len(delivered[r]) = SourceLen(r)
          /\ cursor[r] <= SourceLen(r)
          /\ IsPrefix(delivered[r], ChunksAlone(req[r])))
  /\ [][\A r \in Requests :
          gen[r] = "closed" =>
            /\ cursor'[r] = cursor[r]
            /\ delivered'[r] = delivered[r]
            /\ sunk'[r] = sunk[r]
            /\ gen'[r] = "closed"]_vars

\* C5 witness: the consumer stopped after the first item with rows left.
C5_Witness ==
  \E r \in Requests :
     gen[r] = "closed" /\ Len(delivered[r]) = 1 /\ cursor[r] = 1 /\ SourceLen(r) >= 2

\* C6: writerow returns the bytes it passed to the sink's write in that call,
\* and that is the item the generator yields.
C6_ReturnsWhatItForwarded ==
  \A r \in Requests :
     call[r].wrote =>
       /\ call[r].returned = call[r].written
       /\ delivered[r] # <<>>
       /\ delivered[r][Len(delivered[r])] = sunk[r][Len(sunk[r])]

\* C6 witness: a writerow call forwarded a non-empty chunk.
C6_Witness ==
  \E r \in Requests : call[r].wrote /\ call[r].written # <<>> /\ call[r].n >= 2

\* C7: a row with a character the target encoding cannot represent makes
\* writerow raise; nothing is forwarded for that row, the generator ends with
\* the error, nothing is produced for that row or a later one, and the chunks
\* of the earlier rows stay as they were.
C7_EncodingFailureIsTerminal ==
  /\ [](\A r \in Requests :
          /\ (call[r].n > 0 /\ call[r].raised # "ValueError"
                /\ \E i \in 1..Len(call[r].fields) : \E j \in 1..Len(call[r].fields[i]) :
                      Unrepresentable(req[r].encoding, call[r].fields[i][j]))
               => call[r].raised = "UnicodeEncodeError"
          /\ call[r].raised = "UnicodeEncodeError" =>
               /\ gen[r] = "failed"
               /\ ~call[r].wrote
               /\ Len(sunk[r]) = call[r].n - 1
               /\ Len(delivered[r]) = call[r].n - 1)
  /\ [][\A r \in Requests :
          /\ call'[r].raised = "UnicodeEncodeError" =>
               (sunk'[r] = sunk[r] /\ delivered'[r] = delivered[r])
          /\ gen[r] = "failed" =>
               (gen'[r] = "failed" /\ sunk'[r] = sunk[r] /\ delivered'[r] = delivered[r]
                  /\ cursor'[r] = cursor[r] /\ call'[r] = call[r])]_vars

\* C7 witness: the second row failed to encode after the first was forwarded,
\* and a third row was still to come.
C7_Witness ==
  \E r \in Requests :
     /\ call[r].raised = "UnicodeEncodeError" /\ call[r].n = 2
     /\ Len(sunk[r]) = 1 /\ SourceLen(r) = 3 /\ gen[r] = "failed"

\* C8: at the start of every writerow call, the first included, the text
\* buffer is empty, and when the call returns the buffer is empty again.
C8_BufferEmptyBeforeAndAfter ==
  \A r \in Requests :
     call[r].n > 0 =>
       /\ call[r].entry = <<>>
       /\ call[r].raised = "" => call[r].after = <<>>

\* C9: whatever the interleaving of the pulls of concurrent requests, each
\* request receives the chunk sequence it would receive when run alone.
C9_RequestsIsolated ==
  \A r \in Requests :
     /\ IsPrefix(delivered[r], ChunksAlone(req[r]))
     /\ gen[r] \in {"done", "failed"} => delivered[r] = ChunksAlone(req[r])
     /\ gen[r] = "suspended" => delivered[r] # <<>>

\* C9 witness: two requests are both suspended in mid-export and a third
\* pull of one of them has already followed a pull of the other.
C9_Witness ==
  \E r1 \in Requests : \E r2 \in Requests \ {r1} :
     /\ gen[r1] = "suspended" /\ Len(delivered[r1]) = 2
     /\ gen[r2] = "suspended" /\ Len(delivered[r2]) = 1

\* C10: in the view, a record's line has one field per column of list_display
\* other than 'action_checkbox', the i-th field being the text of the value
\* resolved for the i-th column, also when two columns share a label; and the
\* row's keys are all fieldnames, so the table writer never rejects the row.
C10_FieldsAlignWithColumns ==
  \A r \in Requests :
     (req[r].mode = "view" /\ call[r].n > 0) =>
       /\ Len(call[r].fields) = Len(Columns(req[r].list_display))
       /\ \A i \in 1..Len(call[r].fields) :
             call[r].fields[i] = smart_text(call[r].values[i])
       /\ call[r].raised # "ValueError"

=============================================================================
